---- MODULE Spec2Model ----
(***************************************************************************)
(* A model of the Otomoto scraper: the command line entry point (main.py), *)
(* the bulk-run coordinator (utils/full_extraction.py) and the page        *)
(* fetcher with its pagination and de-duplication                          *)
(* (scraper/otomoto_scraper.py).                                           *)
(*                                                                         *)
(* One process runs at a time (the program is single threaded); pc is its  *)
(* position in the code.  The files under cars/ survive the process, and   *)
(* Restart starts the program again on the files the previous run left.    *)
(* Listings are counted, not stored, in the specifications Spec and        *)
(* SpecSearch; _deduplicate is applied to concrete listings in SpecDedup.  *)
(***************************************************************************)
EXTENDS Integers, Sequences, FiniteSets, TLC

(***************************************************************************)
(* Bounds of the model.                                                    *)
(***************************************************************************)
\* search_cars(params, max_pages) is called with max_pages in 0..MaxPagesArg
\* in SpecSearch.
MaxPagesArg == 3
\* KeyboardInterrupt signals delivered to one process.
MaxInterrupts == 1
\* Length of the listing sequence given to _deduplicate in SpecDedup.
MaxCars == 3
\* Processes run one after the other on the same disk.
MaxRuns == 2
\* Copies of one price in the listings given to calculate_price_interval.
MaxCopies == 14
\* _build_url(params, page) is called with page in 1..MaxPageArg.
MaxPageArg == 3
\* Listings of the structured data given to _extract_next_data.
MaxItems == 2
\* Characters of the price an article shows to _extract_from_html.
MaxPriceChars == 8

(***************************************************************************)
(* Constants of the program.                                               *)
(***************************************************************************)
\* otomoto_scraper.py:118, "if len(page_cars) < 10: break".
FullPageThreshold == 10
\* otomoto_scraper.py:71, the default of max_pages.
DefaultMaxPages == 1

None == "None"

\* Python's truth value of an optional string.
Truthy(v) == v # None /\ v # ""

\* The numbers of listings one extraction of one page can give: none, one
\* less than a full page, a full page.
PageYields == {0, FullPageThreshold - 1, FullPageThreshold}

ExceptionClasses == {"Exception", "KeyboardInterrupt"}

\* config.py:46, FULL_EXTRACTION_DELAY = 2.5 seconds, in tenths of a second.
FULL_EXTRACTION_DELAY == 25
\* config.py:47.
FULL_EXTRACTION_MAX_PAGES == 3
\* brand_model_validator.py:51, "list(self.brands.keys())[:5]".
SuggestionLimit == 5
\* helpers.py:10, "if c.preco_numerico > 100".
PriceFloor == 100
\* helpers.py:22, "int(len(prices) * 0.05)": 5 per cent.
TrimPercent == 5
\* otomoto_scraper.py:251, "len(price_str) > 7".
GluedLength == 7
\* otomoto_scraper.py:258, "if price_val < 500: continue".
HtmlPriceFloor == 500
\* Exit codes: sys.exit(1) after a validation error, sys.exit(0) after a
\* KeyboardInterrupt, sys.exit(1) after any other exception, 0 when main
\* returns, 2 when argparse rejects the command line.
ExitValidation == 1
ExitInterrupted == 0
ExitError == 1
ExitReturned == 0
ExitUsage == 2

(***************************************************************************)
(* The reference catalog (validator.brands), in file order.                *)
(***************************************************************************)
brands == <<
    [key |-> "BMW", brand_value |-> "bmw", brand_text |-> "BMW",
     models |-> << [value |-> "x5", text |-> "X5"],
                   [value |-> "seria-3", text |-> "Seria 3"] >>],
    [key |-> "Audi", brand_value |-> "audi", brand_text |-> "Audi",
     models |-> << [value |-> "a4", text |-> "A4"] >>] >>

\* str.lower() and str.strip() on the strings of the model.
LowerMap ==
    [x \in {"BMW", "Audi", "X5", "Seria 3", "A4", " BMW "} |->
        CASE x = "BMW" -> "bmw"
          [] x = "Audi" -> "audi"
          [] x = "X5" -> "x5"
          [] x = "Seria 3" -> "seria 3"
          [] x = "A4" -> "a4"
          [] x = " BMW " -> " bmw "]

Lower(x) == IF x \in DOMAIN LowerMap THEN LowerMap[x] ELSE x

Strip(x) == IF x = " bmw " THEN "bmw" ELSE x

\* The pairs (brand_value, model_value) in the order of the two nested loops
\* of run_full_extraction.
RECURSIVE PairsFrom(_)
PairsFrom(b) ==
    IF b > Len(brands)
      THEN <<>>
      ELSE [m \in 1..Len(brands[b].models) |->
               <<brands[b].brand_value, brands[b].models[m].value>>]
           \o PairsFrom(b + 1)

Pairs == PairsFrom(1)

PairSet == {Pairs[i] : i \in 1..Len(Pairs)}

\* csv_path of a pair: cars/<brand>/<model>/<model>.csv.  _sanitize leaves the
\* values of the catalog as they are, so the pair names the file.
CsvPath(pair) == pair

(***************************************************************************)
(* BrandModelValidator.validate_search_params                              *)
(***************************************************************************)
\* A slice without its limit.
Take_NoCap(q, n) == q

\* q[:n]
Take(q, n) == [i \in 1..(IF Len(q) < n THEN Len(q) ELSE n) |-> q[i]]

BrandMatches(b, marca_lower) ==
    \/ Lower(b.key) = marca_lower
    \/ b.brand_value = marca_lower
    \/ Lower(b.brand_text) = marca_lower

ModelMatches(m, modelo_lower) ==
    \/ Lower(m.text) = modelo_lower
    \/ Lower(m.value) = modelo_lower

\* The for ... break loops of the validator: hits[i] tells whether the i-th
\* entry matches; the index of the first match, 0 when there is none.
FirstIndex(hits) ==
    IF \E i \in 1..Len(hits) : hits[i]
      THEN CHOOSE i \in 1..Len(hits) :
               hits[i] /\ \A j \in 1..(i - 1) : ~hits[j]
      ELSE 0

validate_search_params(catalog, marca_input, modelo_input) ==
    LET result == [valid |-> TRUE, brand_value |-> None, model_value |-> None,
                   errors |-> <<>>, suggestions |-> <<>>]
        marca_lower == Strip(Lower(marca_input))
        bi == FirstIndex([i \in 1..Len(catalog) |->
                             BrandMatches(catalog[i], marca_lower)])
    IN  IF marca_input = None \/ marca_input = ""
          THEN result
        ELSE IF bi = 0
          THEN [result EXCEPT
                  !.valid = FALSE,
                  !.errors = <<"Marca '" \o marca_input \o "' nao encontrada.">>,
                  !.suggestions =
                      [k \in {"marcas"} |->
                          Take([i \in 1..Len(catalog) |-> catalog[i].key],
                               SuggestionLimit)]]
        ELSE LET found == catalog[bi]
                 withBrand == [result EXCEPT !.brand_value = found.brand_value]
                 modelo_lower == Strip(Lower(modelo_input))
                 mi == FirstIndex([i \in 1..Len(found.models) |->
                                 ModelMatches(found.models[i], modelo_lower)])
             IN  IF modelo_input = None \/ modelo_input = ""
                   THEN withBrand
                 ELSE IF mi = 0
                   THEN [withBrand EXCEPT
                           !.valid = FALSE,
                           !.errors = <<"Modelo '" \o modelo_input
                                        \o "' nao encontrado para a marca.">>,
                           !.suggestions =
                               [k \in {"modelos_disponiveis"} |->
                                   [i \in 1..Len(found.models) |->
                                       found.models[i].text]]]
                 ELSE [withBrand EXCEPT
                         !.model_value = found.models[mi].value]

(***************************************************************************)
(* The command lines of the model.  bad: argparse rejects the line.  full: *)
(* --full_extraction.                                                      *)
(***************************************************************************)
BrandInputs == {None, "BMW", "tesla"}
ModelInputs == {None, "X5", "x9"}

BulkArgv == [bad |-> FALSE, full |-> TRUE, marca |-> None, modelo |-> None]

ArgvSet ==
    [bad : {FALSE}, full : {FALSE}, marca : BrandInputs, modelo : ModelInputs]
    \cup {BulkArgv}
    \cup {[bad |-> TRUE, full |-> FALSE, marca |-> None, modelo |-> None]}

\* stats = {'processed': 0, 'with_results': 0, 'empty': 0, 'skipped': 0,
\* 'errors': 0}
ZeroStats ==
    [processed |-> 0, with_results |-> 0, empty |-> 0, skipped |-> 0,
     errors |-> 0]

\* The progress file: absent, unreadable (cut short, or not JSON), or a JSON
\* document whose "done" list is the set done.
NoProgressFile == [state |-> "absent", done |-> {}]
BrokenProgressFile == [state |-> "corrupt", done |-> {}]
ProgressFileOf(done) == [state |-> "ok", done |-> done]

VARIABLES
    pc,            \* position of the process in the code
    mode,          \* "single", "bulk" (main.py) or "api" (search_cars alone)
    pending,       \* what leaves the "with OtomotoScraper()" block: "none",
                   \* "fallthrough", "return", "Exception", "KeyboardInterrupt"
    saveSite,      \* which call of _save_progress is running
    use_selenium,  \* OtomotoScraper.use_selenium
    driver,        \* OtomotoScraper.driver: "none", "open", "quit"
    acquisitions,  \* number of webdriver.Chrome() handles created by the process
    page,          \* the loop variable of search_cars
    max_pages,     \* the argument of search_cars
    all_cars,      \* len(all_cars)
    page_cars,     \* len(page_cars)
    results,       \* what search_cars returned: "none", "empty", "nonempty"
    lw,            \* history: outcome of the lightweight step of this page
    lwN,           \* history: listings the lightweight step produced
    rendered,      \* history: outcome of the rendered step of this page
    requested,     \* history: the page numbers this search asked for
    fetched,       \* history: <<page, listings>> of every page it finished
    renderedOnReleased, \* history: a rendered fetch used a driver not open
    kiCount,       \* history: KeyboardInterrupt signals delivered so far
    kiLost,        \* history: signals swallowed by a bare "except:"
    kiAt,          \* history: how many pairs the bulk run had reached when
                   \* the first signal arrived inside a pair; 0 without one
    run,           \* number of the process (1 is the first run of the program)
    argv,          \* the command line of the process
    params,        \* main's CarSearchParams (marca, modelo)
    exitCode,      \* <<exit code>> of the process; <<>> while it runs
    stdout,        \* the JSON documents printed, in order
    idx,           \* bulk run: position in the catalog's list of pairs
    already_done,  \* bulk run: the set already_done
    stats,         \* bulk run: the dictionary stats
    returnedStats, \* bulk run: run_full_extraction returned stats
    progressFile,  \* disk: cars/.progress.json
    csvFiles,      \* disk: the per-pair CSV files
    visited,       \* history: the pairs this run reached, with what became
                   \* of each
    completed,     \* history: pairs searched and written by this run
    startDone,     \* history: _load_progress() at the start of this run
    startCsv,      \* history: pairs whose CSV existed at the start of this run
    sleeps,        \* history: the sleeps since the last attempted search
    lastOutcome,   \* history: how the last attempted search ended
    outerFault,    \* history: an error was raised outside every pair's try
    cars,          \* SpecDedup: the argument of _deduplicate
    unique,        \* SpecDedup: the list _deduplicate returned
    call,          \* SpecCalls: the function called, with its arguments
    ret            \* SpecCalls: <<what it returned>>; <<>> before it returns

ctlVars     == <<pc, pending, saveSite>>
scraperVars == <<use_selenium, driver, acquisitions>>
searchVars  == <<page, max_pages, all_cars, page_cars, results>>
pageHist    == <<lw, lwN, rendered, requested, fetched>>
sigVars     == <<kiCount, kiLost, kiAt>>
procVars    == <<run, argv, params, exitCode, stdout>>
bulkVars    == <<idx, already_done, stats, returnedStats>>
diskVars    == <<progressFile, csvFiles>>
bulkHist    == <<visited, completed, startDone, startCsv, sleeps, lastOutcome,
                 outerFault>>
restVars    == <<procVars, bulkVars, diskVars, bulkHist>>
dedupVars   == <<cars, unique>>
callVars    == <<call, ret>>
pureVars    == <<dedupVars, callVars>>

vars == <<pc, mode, pending, saveSite, use_selenium, driver, acquisitions,
          page, max_pages, all_cars, page_cars, results, lw, lwN, rendered,
          requested, fetched, renderedOnReleased, kiCount, kiLost, kiAt, run,
          argv, params, exitCode, stdout, idx, already_done, stats,
          returnedStats, progressFile, csvFiles, visited, completed,
          startDone, startCsv, sleeps, lastOutcome, outerFault, cars, unique,
          call, ret>>

\* No function is being checked on its own.
NoCall ==
    /\ call = [fn |-> "none"]
    /\ ret = <<>>

(***************************************************************************)
(* Signals.  A KeyboardInterrupt can arrive wherever the process blocks;   *)
(* Deliver(sig) records one when sig is true.                              *)
(***************************************************************************)
\* The positions inside the processing of one pair of the bulk run: its
\* search, the writing of its results and of the progress, the two sleeps.
PairPcs == {"page_loop", "lightweight", "selenium_get", "scroll", "wait",
            "selenium_extract", "page_done", "search_return", "csv_open",
            "csv_rows", "pair_except", "delay", "cooldown"}

InPair ==
    /\ mode = "bulk"
    /\ \/ pc \in PairPcs
       \/ pc \in {"save_open", "save_dump"} /\ saveSite = "pair"

\* kiAt: the number of pairs reached when the first signal arrived inside the
\* processing of a pair (the pair in hand included).
Deliver(sig) ==
    /\ sig => kiCount < MaxInterrupts
    /\ kiCount' = IF sig THEN kiCount + 1 ELSE kiCount
    /\ kiAt' = IF sig /\ kiAt = 0 /\ InPair THEN Len(visited) ELSE kiAt

\* A process that has not started yet: its memory.
FreshMemory ==
    /\ pending = "none"
    /\ saveSite = "none"
    /\ use_selenium = TRUE
    /\ driver = "none"
    /\ acquisitions = 0
    /\ page = 1
    /\ max_pages = 0
    /\ all_cars = 0
    /\ page_cars = 0
    /\ results = "none"
    /\ lw = "none"
    /\ lwN = 0
    /\ rendered = "none"
    /\ requested = <<>>
    /\ fetched = <<>>
    /\ renderedOnReleased = FALSE
    /\ kiCount = 0
    /\ kiLost = FALSE
    /\ kiAt = 0
    /\ params = [marca |-> None, modelo |-> None]
    /\ exitCode = <<>>
    /\ stdout = <<>>
    /\ idx = 1
    /\ already_done = {}
    /\ stats = ZeroStats
    /\ returnedStats = FALSE
    /\ visited = <<>>
    /\ completed = {}
    /\ startDone = {}
    /\ startCsv = {}
    /\ sleeps = <<>>
    /\ lastOutcome = "none"
    /\ outerFault = FALSE

\* The same memory, as the state a new process starts in.
ResetMemory ==
    /\ pending' = "none"
    /\ saveSite' = "none"
    /\ use_selenium' = TRUE
    /\ driver' = "none"
    /\ acquisitions' = 0
    /\ page' = 1
    /\ max_pages' = 0
    /\ all_cars' = 0
    /\ page_cars' = 0
    /\ results' = "none"
    /\ lw' = "none"
    /\ lwN' = 0
    /\ rendered' = "none"
    /\ requested' = <<>>
    /\ fetched' = <<>>
    /\ renderedOnReleased' = FALSE
    /\ kiCount' = 0
    /\ kiLost' = FALSE
    /\ kiAt' = 0
    /\ params' = [marca |-> None, modelo |-> None]
    /\ exitCode' = <<>>
    /\ stdout' = <<>>
    /\ idx' = 1
    /\ already_done' = {}
    /\ stats' = ZeroStats
    /\ returnedStats' = FALSE
    /\ visited' = <<>>
    /\ completed' = {}
    /\ startDone' = {}
    /\ startCsv' = {}
    /\ sleeps' = <<>>
    /\ lastOutcome' = "none"
    /\ outerFault' = FALSE

\* A disk on which the program never ran.
FreshDisk ==
    /\ progressFile = NoProgressFile
    /\ csvFiles = [p \in PairSet |-> "absent"]

(***************************************************************************)
(* Control transfer.  A target is the position the process continues at,   *)
(* with the values of pending and saveSite it carries there.               *)
(***************************************************************************)
At(p) == [pc |-> p, pending |-> pending, saveSite |-> saveSite]

Goto(t) ==
    /\ pc' = t.pc
    /\ pending' = t.pending
    /\ saveSite' = t.saveSite

\* A coordinator whose try block has no "except Exception": the error of one
\* pair ends the run.
RaiseInPairTry_Abort(exc) ==
    IF exc = "KeyboardInterrupt"
      THEN [At("save_open") EXCEPT !.saveSite = "cancel"]
      ELSE [At("scope_exit") EXCEPT !.pending = exc]

\* Where an exception continues that is raised inside the try block of one
\* pair of run_full_extraction: "except KeyboardInterrupt" saves the progress
\* and returns, "except Exception" counts the error.
RaiseInPairTry(exc) ==
    IF exc = "KeyboardInterrupt"
      THEN [At("save_open") EXCEPT !.saveSite = "cancel"]
      ELSE At("pair_except")

\* Raised inside "with OtomotoScraper() as scraper" and not caught there: the
\* block is left through __exit__ with the exception pending.
RaiseInWith(exc) == [At("scope_exit") EXCEPT !.pending = exc]

\* Raised inside the try block of main: "except KeyboardInterrupt" or "except
\* Exception".
RaiseInMain(exc) ==
    IF exc = "KeyboardInterrupt"
      THEN [At("main_interrupt") EXCEPT !.pending = exc]
      ELSE [At("main_except") EXCEPT !.pending = exc]

\* Where an exception raised in the body of search_cars, and not caught in
\* it, continues: in the caller.
RaiseFromSearch(exc) ==
    CASE mode = "bulk" -> RaiseInPairTry(exc)
      [] mode = "single" -> RaiseInWith(exc)
      [] OTHER -> [At("api_raised") EXCEPT !.pending = exc]

(***************************************************************************)
(* OtomotoScraper.search_cars                                              *)
(***************************************************************************)
SearchPcs == {"page_loop", "lightweight", "selenium_get", "scroll", "wait",
              "selenium_extract", "page_done", "search_return"}

\* "except Exception as e" around each of the two fetch steps.
FetchHandlerCatches(exc) == exc = "Exception"

\* A fetcher that renders every page, whatever the lightweight step gave.
NeedsRendered_Always(n, sel) == sel

\* "if not page_cars and self.use_selenium".
NeedsRendered(n, sel) == n = 0 /\ sel

\* page_cars = _extract_next_data(soup); if not page_cars: page_cars =
\* _extract_from_html(soup).
ExtractPage(jsonN, htmlN) == IF jsonN # 0 THEN jsonN ELSE htmlN

AfterLightweight(n) ==
    IF NeedsRendered(n, use_selenium) THEN "selenium_get" ELSE "page_done"

\* The state search_cars starts in.
EnterSearch(mp) ==
    /\ page' = 1
    /\ max_pages' = mp
    /\ all_cars' = 0
    /\ page_cars' = 0
    /\ results' = "none"
    /\ lw' = "none"
    /\ lwN' = 0
    /\ rendered' = "none"
    /\ requested' = <<>>
    /\ fetched' = <<>>

\* "for page in range(1, max_pages + 1)", and "page_cars = []".
PageLoop ==
    /\ pc = "page_loop"
    /\ IF page <= max_pages
         THEN /\ Goto(At("lightweight"))
              /\ page_cars' = 0
              /\ lw' = "none"
              /\ lwN' = 0
              /\ rendered' = "none"
              /\ requested' = Append(requested, page)
         ELSE /\ Goto(At("search_return"))
              /\ UNCHANGED <<page_cars, lw, lwN, rendered, requested>>
    /\ UNCHANGED <<mode, scraperVars, page, max_pages, all_cars, results,
                   fetched, renderedOnReleased, sigVars, pureVars, restVars>>

\* session.get answers; with status 200 the two extractors run.
LightweightFetch ==
    /\ pc = "lightweight"
    /\ \E ok \in BOOLEAN, jsonN \in PageYields, htmlN \in PageYields :
         LET n == IF ok THEN ExtractPage(jsonN, htmlN) ELSE 0
         IN  /\ page_cars' = n
             /\ lwN' = n
             /\ lw' = IF ok THEN "extracted" ELSE "non200"
             /\ Goto(At(AfterLightweight(n)))
    /\ UNCHANGED <<mode, scraperVars, page, max_pages, all_cars, results,
                   rendered, requested, fetched, renderedOnReleased, sigVars,
                   pureVars, restVars>>

\* session.get (or an extractor) raises; page_cars is still the empty list.
LightweightRaises ==
    /\ pc = "lightweight"
    /\ \E exc \in ExceptionClasses :
         /\ Deliver(exc = "KeyboardInterrupt")
         /\ lw' = "raised"
         /\ IF FetchHandlerCatches(exc)
              THEN Goto(At(AfterLightweight(page_cars)))
              ELSE Goto(RaiseFromSearch(exc))
    /\ UNCHANGED <<mode, scraperVars, searchVars, lwN, rendered, requested,
                   fetched, renderedOnReleased, kiLost, pureVars, restVars>>

\* self.driver.get(url)
SeleniumGet ==
    /\ pc = "selenium_get"
    /\ rendered' = "started"
    /\ renderedOnReleased' = (renderedOnReleased \/ driver # "open")
    /\ Goto(At("scroll"))
    /\ UNCHANGED <<mode, scraperVars, searchVars, lw, lwN, requested, fetched,
                   sigVars, pureVars, restVars>>

SeleniumGetRaises ==
    /\ pc = "selenium_get"
    /\ \E exc \in ExceptionClasses :
         /\ Deliver(exc = "KeyboardInterrupt")
         /\ rendered' = "raised"
         /\ IF FetchHandlerCatches(exc)
              THEN Goto(At("page_done"))
              ELSE Goto(RaiseFromSearch(exc))
    /\ renderedOnReleased' = (renderedOnReleased \/ driver # "open")
    /\ UNCHANGED <<mode, scraperVars, searchVars, lw, lwN, requested, fetched,
                   kiLost, pureVars, restVars>>

\* _scroll_page: execute_script and time.sleep(0.5) inside "try: ... except:
\* pass"; whatever is raised there, a KeyboardInterrupt included, is dropped.
ScrollPage ==
    /\ pc = "scroll"
    /\ \E sig \in BOOLEAN :
         /\ Deliver(sig)
         /\ kiLost' = (kiLost \/ sig)
    /\ Goto(At("wait"))
    /\ UNCHANGED <<mode, scraperVars, searchVars, pageHist,
                   renderedOnReleased, pureVars, restVars>>

\* WebDriverWait(...).until(...) inside "try: ... except: pass".
WaitForArticle ==
    /\ pc = "wait"
    /\ \E sig \in BOOLEAN :
         /\ Deliver(sig)
         /\ kiLost' = (kiLost \/ sig)
    /\ Goto(At("selenium_extract"))
    /\ UNCHANGED <<mode, scraperVars, searchVars, pageHist,
                   renderedOnReleased, pureVars, restVars>>

\* soup = BeautifulSoup(self.driver.page_source); the two extractors run.
SeleniumExtract ==
    /\ pc = "selenium_extract"
    /\ \E jsonN \in PageYields, htmlN \in PageYields :
         page_cars' = ExtractPage(jsonN, htmlN)
    /\ rendered' = "extracted"
    /\ Goto(At("page_done"))
    /\ UNCHANGED <<mode, scraperVars, page, max_pages, all_cars, results, lw,
                   lwN, requested, fetched, renderedOnReleased, sigVars,
                   pureVars, restVars>>

SeleniumExtractRaises ==
    /\ pc = "selenium_extract"
    /\ \E exc \in ExceptionClasses :
         /\ Deliver(exc = "KeyboardInterrupt")
         /\ rendered' = "raised"
         /\ IF FetchHandlerCatches(exc)
              THEN Goto(At("page_done"))
              ELSE Goto(RaiseFromSearch(exc))
    /\ UNCHANGED <<mode, scraperVars, searchVars, lw, lwN, requested, fetched,
                   renderedOnReleased, kiLost, pureVars, restVars>>

\* "if not page_cars: break": a page without listings ends the search.
StopOnEmpty(n) == n = 0

\* A search that also stops on a page of exactly 10 listings.
StopOnShort_OffByOne(n) == n <= FullPageThreshold

\* "if len(page_cars) < 10: break": a short page is taken for the last one.
StopOnShort(n) == n < FullPageThreshold

\* The end of the loop body: the two breaks and all_cars.extend(page_cars).
PageDone ==
    /\ pc = "page_done"
    /\ fetched' = Append(fetched, <<page, page_cars>>)
    /\ IF StopOnEmpty(page_cars)
         THEN /\ Goto(At("search_return"))
              /\ UNCHANGED <<page, all_cars>>
         ELSE /\ all_cars' = all_cars + page_cars
              /\ IF StopOnShort(page_cars)
                   THEN /\ Goto(At("search_return"))
                        /\ page' = page
                   ELSE /\ Goto(At("page_loop"))
                        /\ page' = page + 1
    /\ UNCHANGED <<mode, scraperVars, max_pages, page_cars, results, lw, lwN,
                   rendered, requested, renderedOnReleased, sigVars,
                   pureVars, restVars>>

\* search_cars returns: its local variables are gone.
LeaveSearch ==
    /\ page' = 1
    /\ max_pages' = 0
    /\ all_cars' = 0
    /\ page_cars' = 0
    /\ lw' = "none"
    /\ lwN' = 0
    /\ rendered' = "none"
    /\ requested' = <<>>
    /\ fetched' = <<>>

\* "return self._deduplicate(all_cars)": at least one listing goes in exactly
\* when at least one comes out (DedupKeepsSome, checked in SpecDedup).
SearchResult(n) == IF n = 0 THEN "empty" ELSE "nonempty"

SearchReturnApi ==
    /\ pc = "search_return"
    /\ mode = "api"
    /\ results' = SearchResult(all_cars)
    /\ Goto(At("api_returned"))
    /\ UNCHANGED <<mode, scraperVars, page, max_pages, all_cars, page_cars,
                   pageHist, renderedOnReleased, sigVars, pureVars, restVars>>

searchFrame == <<searchVars, pageHist, renderedOnReleased, pureVars>>

(***************************************************************************)
(* OtomotoScraper: construction and the "with" block.                      *)
(***************************************************************************)
\* __init__: self.driver = None; if self.use_selenium: self._setup_selenium().
Construct ==
    /\ pc = "construct"
    /\ driver' = (IF use_selenium THEN "open" ELSE driver)
    /\ acquisitions' = (IF use_selenium THEN acquisitions + 1 ELSE acquisitions)
    /\ Goto(At(IF mode = "bulk" THEN "pair_loop" ELSE "with_body"))
    /\ UNCHANGED <<mode, use_selenium, searchFrame, sigVars, restVars>>

\* webdriver.Chrome(options=options) raises: no scraper, no "with" block.
ConstructRaises ==
    /\ pc = "construct"
    /\ outerFault' = TRUE
    /\ Goto(RaiseInMain("Exception"))
    /\ UNCHANGED <<mode, scraperVars, searchFrame, sigVars, procVars, bulkVars,
                   diskVars, visited, completed, startDone, startCsv, sleeps,
                   lastOutcome>>

\* An __exit__ that does not quit the driver.
ReleaseDriver_Leak(d) == d

\* __exit__: "if self.driver: self.driver.quit()".
ReleaseDriver(d) == IF d = "open" THEN "quit" ELSE d

\* Where the process continues after the "with" block.
AfterWith(pend) ==
    IF pend \in ExceptionClasses
      THEN RaiseInMain(pend)
    ELSE IF mode = "bulk" /\ pend = "fallthrough"
      THEN [At("save_open") EXCEPT !.saveSite = "final"]
    ELSE At("main_return")

ScopeExit ==
    /\ pc = "scope_exit"
    /\ driver' = ReleaseDriver(driver)
    /\ Goto(AfterWith(pending))
    /\ UNCHANGED <<mode, use_selenium, acquisitions, searchFrame, sigVars,
                   restVars>>

\* driver.quit() raises, or is interrupted; quit stops the browser service in
\* a finally clause, so the handle is gone either way.
ScopeExitRaises ==
    /\ pc = "scope_exit"
    /\ driver = "open"
    /\ \E exc \in ExceptionClasses :
         /\ Deliver(exc = "KeyboardInterrupt")
         /\ outerFault' = (outerFault \/ exc = "Exception")
         /\ Goto(RaiseInMain(exc))
    /\ driver' = ReleaseDriver(driver)
    /\ UNCHANGED <<mode, use_selenium, acquisitions, searchFrame, kiLost,
                   procVars, bulkVars, diskVars, visited, completed, startDone,
                   startCsv, sleeps, lastOutcome>>

(***************************************************************************)
(* helpers.calculate_price_interval.  A car is the record of its fields    *)
(* the function reads: preco_numerico, in whole currency units.            *)
(***************************************************************************)
RECURSIVE SumSeq(_)
SumSeq(q) == IF q = <<>> THEN 0 ELSE Head(q) + SumSeq(Tail(q))

SeqMin(q) == CHOOSE x \in {q[i] : i \in 1..Len(q)} :
                 \A i \in 1..Len(q) : x <= q[i]

SeqMax(q) == CHOOSE x \in {q[i] : i \in 1..Len(q)} :
                 \A i \in 1..Len(q) : x >= q[i]

\* "prices = [c.preco_numerico for c in cars if c.preco_numerico > 100]"
FilterPrices(cs) ==
    LET kept == SelectSeq(cs, LAMBDA c : c.preco_numerico > PriceFloor)
    IN  [i \in 1..Len(kept) |-> kept[i].preco_numerico]

\* A trim that never cuts.
TrimCut_None(n) == 0

\* "cut = int(len(prices) * 0.05)"
TrimCut(n) == (n * TrimPercent) \div 100

\* "prices.sort()", then "prices[cut:-cut]" when cut > 0, and the untrimmed
\* prices when the slice is empty.
CleanPrices(prices) ==
    LET sorted == SortSeq(prices, LAMBDA a, b : a < b)
        cut == TrimCut(Len(sorted))
        sliced == IF cut > 0
                    THEN SubSeq(sorted, cut + 1, Len(sorted) - cut)
                    ELSE sorted
    IN  IF sliced = <<>> THEN sorted ELSE sliced

\* The dictionary returned when there is nothing to aggregate: it has no
\* "anuncios_usados_para_calculo".
NoPricesOutput ==
    [preco_intervalo |-> [min |-> None, max |-> None],
     media_aproximada |-> None,
     viaturas_consideradas |-> 0]

\* media_aproximada is kept in hundredths, rounded to the nearest.
calculate_price_interval(cs) ==
    IF cs = <<>> THEN NoPricesOutput
    ELSE LET prices == FilterPrices(cs)
         IN  IF prices = <<>> THEN NoPricesOutput
             ELSE LET clean_prices == CleanPrices(prices)
                      n == Len(clean_prices)
                  IN  [preco_intervalo |-> [min |-> SeqMin(clean_prices),
                                            max |-> SeqMax(clean_prices)],
                       media_aproximada |->
                           (200 * SumSeq(clean_prices) + n) \div (2 * n),
                       viaturas_consideradas |-> n,
                       anuncios_usados_para_calculo |->
                           SelectSeq(cs, LAMBDA c :
                               \E i \in 1..n :
                                   clean_prices[i] = c.preco_numerico)]

(***************************************************************************)
(* main.  A JSON document on stdout is the set of its top-level keys.      *)
(***************************************************************************)
EmptyOutput ==
    {"preco_intervalo", "media_aproximada", "viaturas_consideradas",
     "anuncios_usados_para_calculo"}

ErrorOutput == EmptyOutput \cup {"erro", "detalhes", "sugestoes"}

\* "output = calculate_price_interval(results)"
ResultOutput(found) == DOMAIN calculate_price_interval(found)

\* What a search that found listings may hand to main: listings all priced
\* at or under the floor, or some above it.
FoundLists ==
    {<<[preco_numerico |-> PriceFloor]>>,
     <<[preco_numerico |-> PriceFloor], [preco_numerico |-> PriceFloor + 1]>>}

\* parser.parse_args() rejects the command line: argparse exits with 2.
ArgparseRejects ==
    /\ pc = "main_start"
    /\ argv.bad
    /\ exitCode' = <<ExitUsage>>
    /\ Goto([At("exited") EXCEPT !.pending = "SystemExit"])
    /\ UNCHANGED <<mode, scraperVars, searchFrame, sigVars, run, argv, params,
                   stdout, bulkVars, diskVars, bulkHist>>

\* "if args.full_extraction: run_full_extraction()".
MainFullExtraction ==
    /\ pc = "main_start"
    /\ ~argv.bad
    /\ argv.full
    /\ Goto(At("bulk_start"))
    /\ UNCHANGED <<mode, scraperVars, searchFrame, sigVars, restVars>>

Validation == validate_search_params(brands, argv.marca, argv.modelo)

\* The validation error: the JSON of the error is printed and sys.exit(1)
\* ends the process (SystemExit passes both except clauses of main).
MainValidationFails ==
    /\ pc = "main_start"
    /\ ~argv.bad
    /\ ~argv.full
    /\ Truthy(argv.marca)
    /\ ~Validation.valid
    /\ stdout' = Append(stdout, ErrorOutput)
    /\ exitCode' = <<ExitValidation>>
    /\ Goto([At("exited") EXCEPT !.pending = "SystemExit"])
    /\ UNCHANGED <<mode, scraperVars, searchFrame, sigVars, run, argv, params,
                   bulkVars, diskVars, bulkHist>>

\* No brand, or a valid one: params takes the values of the catalog.
MainValidated ==
    /\ pc = "main_start"
    /\ ~argv.bad
    /\ ~argv.full
    /\ Truthy(argv.marca) => Validation.valid
    /\ params' =
         IF Truthy(argv.marca)
           THEN [marca |-> IF Truthy(Validation.brand_value)
                             THEN Validation.brand_value ELSE argv.marca,
                 modelo |-> IF Truthy(Validation.model_value)
                              THEN Validation.model_value ELSE argv.modelo]
           ELSE [marca |-> argv.marca, modelo |-> argv.modelo]
    /\ Goto(At("construct"))
    /\ UNCHANGED <<mode, scraperVars, searchFrame, sigVars, run, argv,
                   exitCode, stdout, bulkVars, diskVars, bulkHist>>

\* "results = scraper.search_cars(params)": max_pages takes its default.
MainSearch ==
    /\ pc = "with_body"
    /\ EnterSearch(DefaultMaxPages)
    /\ Goto(At("page_loop"))
    /\ UNCHANGED <<mode, scraperVars, renderedOnReleased, pureVars, sigVars,
                   restVars>>

\* search_cars returns to main: "if not results" prints the empty output and
\* returns; otherwise the statistics are printed.
SearchReturnMain ==
    /\ pc = "search_return"
    /\ mode = "single"
    /\ results' = SearchResult(all_cars)
    /\ IF results' = "empty"
         THEN /\ stdout' = Append(stdout, EmptyOutput)
              /\ Goto([At("scope_exit") EXCEPT !.pending = "return"])
         ELSE /\ \E found \in FoundLists :
                     stdout' = Append(stdout, ResultOutput(found))
              /\ Goto([At("scope_exit") EXCEPT !.pending = "fallthrough"])
    /\ LeaveSearch
    /\ UNCHANGED <<mode, scraperVars, renderedOnReleased, pureVars, sigVars,
                   run, argv, params, exitCode, bulkVars, diskVars, bulkHist>>

\* main returns (after the with block, or after run_full_extraction).
MainReturn ==
    /\ pc = "main_return"
    /\ returnedStats' = (mode = "bulk")
    /\ exitCode' = <<ExitReturned>>
    /\ Goto(At("exited"))
    /\ UNCHANGED <<mode, scraperVars, searchFrame, sigVars, run, argv, params,
                   stdout, idx, already_done, stats, diskVars, bulkHist>>

\* A handler of KeyboardInterrupt that exits with 1.
MainInterrupt_ExitsOne ==
    /\ pc = "main_interrupt"
    /\ stdout' = Append(stdout, EmptyOutput)
    /\ exitCode' = <<ExitError>>
    /\ Goto(At("exited"))
    /\ UNCHANGED <<mode, scraperVars, searchFrame, sigVars, run, argv, params,
                   bulkVars, diskVars, bulkHist>>

\* "except KeyboardInterrupt": the empty output is printed, sys.exit(0).
MainInterrupt ==
    /\ pc = "main_interrupt"
    /\ stdout' = Append(stdout, EmptyOutput)
    /\ exitCode' = <<ExitInterrupted>>
    /\ Goto(At("exited"))
    /\ UNCHANGED <<mode, scraperVars, searchFrame, sigVars, run, argv, params,
                   bulkVars, diskVars, bulkHist>>

\* "except Exception": the empty output is printed, sys.exit(1).
MainExcept ==
    /\ pc = "main_except"
    /\ stdout' = Append(stdout, EmptyOutput)
    /\ exitCode' = <<ExitError>>
    /\ Goto(At("exited"))
    /\ UNCHANGED <<mode, scraperVars, searchFrame, sigVars, run, argv, params,
                   bulkVars, diskVars, bulkHist>>

(***************************************************************************)
(* run_full_extraction                                                     *)
(***************************************************************************)
\* _load_progress: no file, or a file that does not parse, is the empty set.
_load_progress(file) == IF file.state = "ok" THEN file.done ELSE {}

\* A coordinator without the fallback on the CSV file.
CsvExists_NoFallback(pair) == FALSE

\* os.path.exists(csv_path)
CsvExists(pair) == csvFiles[CsvPath(pair)] # "absent"

\* A cooldown no longer than the delay between pairs.
CooldownDelay_SameAsDelay == FULL_EXTRACTION_DELAY

\* time.sleep(FULL_EXTRACTION_DELAY * 2) after an error.
CooldownDelay == FULL_EXTRACTION_DELAY * 2

SetLastOutcome(q, o) == [q EXCEPT ![Len(q)].outcome = o]

\* already_done = _load_progress(); stats = {...}
BulkStart ==
    /\ pc = "bulk_start"
    /\ already_done' = _load_progress(progressFile)
    /\ stats' = ZeroStats
    /\ startDone' = _load_progress(progressFile)
    /\ startCsv' = {p \in PairSet : csvFiles[CsvPath(p)] # "absent"}
    /\ Goto(At("construct"))
    /\ UNCHANGED <<mode, scraperVars, searchFrame, sigVars, procVars, idx,
                   returnedStats, diskVars, visited, completed, sleeps,
                   lastOutcome, outerFault>>

\* Both loops are over: the with block ends.
PairLoopEnd ==
    /\ pc = "pair_loop"
    /\ idx > Len(Pairs)
    /\ Goto([At("scope_exit") EXCEPT !.pending = "fallthrough"])
    /\ UNCHANGED <<mode, scraperVars, searchFrame, sigVars, restVars>>

\* "if pair in already_done: stats['skipped'] += 1; continue"
PairSkipDone ==
    /\ pc = "pair_loop"
    /\ idx <= Len(Pairs)
    /\ Pairs[idx] \in already_done
    /\ stats' = [stats EXCEPT !.skipped = @ + 1]
    /\ visited' = Append(visited, [pair |-> Pairs[idx], outcome |-> "skipped"])
    /\ idx' = idx + 1
    /\ Goto(At("pair_loop"))
    /\ UNCHANGED <<mode, scraperVars, searchFrame, sigVars, procVars,
                   already_done, returnedStats, diskVars, completed, startDone,
                   startCsv, sleeps, lastOutcome, outerFault>>

\* "if os.path.exists(csv_path): already_done.add(pair); stats['skipped'] += 1;
\* continue"
PairSkipCsv ==
    /\ pc = "pair_loop"
    /\ idx <= Len(Pairs)
    /\ Pairs[idx] \notin already_done
    /\ CsvExists(Pairs[idx])
    /\ already_done' = already_done \cup {Pairs[idx]}
    /\ stats' = [stats EXCEPT !.skipped = @ + 1]
    /\ visited' = Append(visited, [pair |-> Pairs[idx], outcome |-> "skipped"])
    /\ idx' = idx + 1
    /\ Goto(At("pair_loop"))
    /\ UNCHANGED <<mode, scraperVars, searchFrame, sigVars, procVars,
                   returnedStats, diskVars, completed, startDone, startCsv,
                   sleeps, lastOutcome, outerFault>>

\* "results = scraper.search_cars(params, max_pages=FULL_EXTRACTION_MAX_PAGES)"
PairSearch ==
    /\ pc = "pair_loop"
    /\ idx <= Len(Pairs)
    /\ Pairs[idx] \notin already_done
    /\ ~CsvExists(Pairs[idx])
    /\ visited' = Append(visited, [pair |-> Pairs[idx], outcome |-> "searched"])
    /\ EnterSearch(FULL_EXTRACTION_MAX_PAGES)
    /\ Goto(At("page_loop"))
    /\ UNCHANGED <<mode, scraperVars, renderedOnReleased, pureVars, sigVars,
                   procVars, bulkVars, diskVars, completed, startDone,
                   startCsv, sleeps, lastOutcome, outerFault>>

\* search_cars returns to the coordinator: stats['processed'] += 1; without
\* results stats['empty'] += 1 and already_done.add(pair).
SearchReturnBulk ==
    /\ pc = "search_return"
    /\ mode = "bulk"
    /\ results' = SearchResult(all_cars)
    /\ lastOutcome' = results'
    /\ sleeps' = <<>>
    /\ IF results' = "nonempty"
         THEN /\ stats' = [stats EXCEPT !.processed = @ + 1]
              /\ Goto(At("csv_open"))
              /\ UNCHANGED <<already_done, completed>>
         ELSE /\ stats' = [stats EXCEPT !.processed = @ + 1, !.empty = @ + 1]
              /\ already_done' = already_done \cup {Pairs[idx]}
              /\ completed' = completed \cup {Pairs[idx]}
              /\ Goto([At("save_open") EXCEPT !.saveSite = "pair"])
    /\ LeaveSearch
    /\ UNCHANGED <<mode, scraperVars, renderedOnReleased, pureVars, sigVars,
                   procVars, idx, returnedStats, diskVars, visited, startDone,
                   startCsv, outerFault>>

\* os.makedirs(model_dir); open(path, 'w'): the file exists, and is empty.
CsvOpen ==
    /\ pc = "csv_open"
    /\ csvFiles' = [csvFiles EXCEPT ![CsvPath(Pairs[idx])] = "partial"]
    /\ Goto(At("csv_rows"))
    /\ UNCHANGED <<mode, scraperVars, searchFrame, sigVars, procVars, bulkVars,
                   progressFile, bulkHist>>

\* The header and the rows are written and the file is closed;
\* stats['with_results'] += 1; already_done.add(pair).
CsvRows ==
    /\ pc = "csv_rows"
    /\ csvFiles' = [csvFiles EXCEPT ![CsvPath(Pairs[idx])] = "complete"]
    /\ stats' = [stats EXCEPT !.with_results = @ + 1]
    /\ already_done' = already_done \cup {Pairs[idx]}
    /\ completed' = completed \cup {Pairs[idx]}
    /\ Goto([At("save_open") EXCEPT !.saveSite = "pair"])
    /\ UNCHANGED <<mode, scraperVars, searchFrame, sigVars, procVars, idx,
                   returnedStats, progressFile, visited, startDone, startCsv,
                   sleeps, lastOutcome, outerFault>>

\* makedirs, open or a write raises (or is interrupted): the file stays as
\* far as it got.
CsvRaises ==
    /\ pc \in {"csv_open", "csv_rows"}
    /\ \E exc \in ExceptionClasses :
         /\ Deliver(exc = "KeyboardInterrupt")
         /\ Goto(RaiseInPairTry(exc))
    /\ UNCHANGED <<mode, scraperVars, searchFrame, kiLost, restVars>>

\* _save_progress: open(PROGRESS_FILE, 'w') empties the file.
SaveOpen ==
    /\ pc = "save_open"
    /\ progressFile' = BrokenProgressFile
    /\ Goto(At("save_dump"))
    /\ UNCHANGED <<mode, scraperVars, searchFrame, sigVars, procVars, bulkVars,
                   csvFiles, bulkHist>>

\* Where the process continues after _save_progress: the delay between
\* pairs, "return stats" in the handler of KeyboardInterrupt, or "return
\* stats" at the end.
AfterSave(site) ==
    CASE site = "pair" -> At("delay")
      [] site = "cancel" -> [At("scope_exit") EXCEPT !.pending = "return"]
      [] OTHER -> At("main_return")

\* _save_progress: json.dump writes the set, the file is closed.
SaveDump ==
    /\ pc = "save_dump"
    /\ progressFile' = ProgressFileOf(already_done)
    /\ Goto(AfterSave(saveSite))
    /\ UNCHANGED <<mode, scraperVars, searchFrame, sigVars, procVars, bulkVars,
                   csvFiles, bulkHist>>

\* Where an exception raised in _save_progress continues.
RaiseInSave(site, exc) ==
    CASE site = "pair" -> RaiseInPairTry(exc)
      [] site = "cancel" -> RaiseInWith(exc)
      [] OTHER -> RaiseInMain(exc)

\* _save_progress raises (or is interrupted): before the file is opened it
\* stays as it was, afterwards it stays cut short.
SaveRaises ==
    /\ pc \in {"save_open", "save_dump"}
    /\ \E exc \in ExceptionClasses :
         /\ Deliver(exc = "KeyboardInterrupt")
         /\ outerFault' = (outerFault \/ (saveSite # "pair" /\ exc = "Exception"))
         /\ Goto(RaiseInSave(saveSite, exc))
    /\ UNCHANGED <<mode, scraperVars, searchFrame, kiLost, procVars, bulkVars,
                   diskVars, visited, completed, startDone, startCsv, sleeps,
                   lastOutcome>>

\* "except Exception as e: stats['errors'] += 1"
PairExcept ==
    /\ pc = "pair_except"
    /\ stats' = [stats EXCEPT !.errors = @ + 1]
    /\ lastOutcome' = "error"
    /\ sleeps' = <<>>
    /\ visited' = SetLastOutcome(visited, "error")
    /\ Goto(At("cooldown"))
    /\ UNCHANGED <<mode, scraperVars, searchFrame, sigVars, procVars, idx,
                   already_done, returnedStats, diskVars, completed, startDone,
                   startCsv, outerFault>>

\* "time.sleep(FULL_EXTRACTION_DELAY * 2); continue"
Cooldown ==
    /\ pc = "cooldown"
    /\ sleeps' = Append(sleeps, CooldownDelay)
    /\ idx' = idx + 1
    /\ Goto(At("pair_loop"))
    /\ UNCHANGED <<mode, scraperVars, searchFrame, sigVars, procVars,
                   already_done, stats, returnedStats, diskVars, visited,
                   completed, startDone, startCsv, lastOutcome, outerFault>>

\* "time.sleep(FULL_EXTRACTION_DELAY)", the last statement of the loop body.
Delay ==
    /\ pc = "delay"
    /\ sleeps' = Append(sleeps, FULL_EXTRACTION_DELAY)
    /\ idx' = idx + 1
    /\ Goto(At("pair_loop"))
    /\ UNCHANGED <<mode, scraperVars, searchFrame, sigVars, procVars,
                   already_done, stats, returnedStats, diskVars, visited,
                   completed, startDone, startCsv, lastOutcome, outerFault>>

\* A KeyboardInterrupt during one of the two sleeps: neither is inside a try
\* block of run_full_extraction.
SleepInterrupted ==
    /\ pc \in {"delay", "cooldown"}
    /\ Deliver(TRUE)
    /\ Goto(RaiseInWith("KeyboardInterrupt"))
    /\ UNCHANGED <<mode, scraperVars, searchFrame, kiLost, restVars>>

(***************************************************************************)
(* The process and the disk.                                               *)
(***************************************************************************)
Ended == pc \in {"exited", "crashed"}

\* The process is killed (or the machine stops): its memory is gone, the
\* files stay as they are.
Crash ==
    /\ ~Ended
    /\ pc' = "crashed"
    /\ ResetMemory
    /\ UNCHANGED <<mode, run, argv, diskVars, pureVars>>

\* The bulk run is started again on the files the last run left.
Restart ==
    /\ Ended
    /\ mode = "bulk"
    /\ run < MaxRuns
    /\ run' = run + 1
    /\ pc' = "main_start"
    /\ ResetMemory
    /\ UNCHANGED <<mode, argv, diskVars, pureVars>>

Init ==
    /\ pc = "main_start"
    /\ run = 1
    /\ argv \in ArgvSet
    /\ mode = (IF argv.full THEN "bulk" ELSE "single")
    /\ FreshMemory
    /\ FreshDisk
    /\ cars = <<>>
    /\ unique = <<>>
    /\ NoCall

Next ==
    \/ ArgparseRejects
    \/ MainFullExtraction
    \/ MainValidationFails
    \/ MainValidated
    \/ Construct
    \/ ConstructRaises
    \/ MainSearch
    \/ PageLoop
    \/ LightweightFetch
    \/ LightweightRaises
    \/ SeleniumGet
    \/ SeleniumGetRaises
    \/ ScrollPage
    \/ WaitForArticle
    \/ SeleniumExtract
    \/ SeleniumExtractRaises
    \/ PageDone
    \/ SearchReturnMain
    \/ ScopeExit
    \/ ScopeExitRaises
    \/ MainReturn
    \/ MainInterrupt
    \/ MainExcept
    \/ BulkStart
    \/ PairLoopEnd
    \/ PairSkipDone
    \/ PairSkipCsv
    \/ PairSearch
    \/ SearchReturnBulk
    \/ CsvOpen
    \/ CsvRows
    \/ CsvRaises
    \/ SaveOpen
    \/ SaveDump
    \/ SaveRaises
    \/ PairExcept
    \/ Cooldown
    \/ Delay
    \/ SleepInterrupted
    \/ Crash
    \/ Restart

Spec == Init /\ [][Next]_vars

(***************************************************************************)
(* Claims about the bulk run and about main, checked under Spec.           *)
(***************************************************************************)
DiskDone == _load_progress(progressFile)

SearchedAt(i) == visited[i].outcome # "skipped"

\* C1: a pair that was in the persisted progress set, or whose CSV file
\* existed, when this run of run_full_extraction started, is never searched
\* in this run: it is reached only to be skipped, and counted as skipped.
C1_BulkResume ==
    mode = "bulk" =>
        /\ \A i \in 1..Len(visited) :
             visited[i].pair \in (startDone \cup startCsv) => ~SearchedAt(i)
        /\ stats.skipped =
             Cardinality({i \in 1..Len(visited) : ~SearchedAt(i)})

\* C1 witness: a second run that started with one pair known only from the
\* progress file and another known only from its CSV file, skipped both and
\* searched a third.
C1_Witness ==
    /\ mode = "bulk"
    /\ run = 2
    /\ pc = "exited"
    /\ startDone \ startCsv # {}
    /\ startCsv \ startDone # {}
    /\ stats.skipped = 2
    /\ \E i \in 1..Len(visited) : SearchedAt(i)

\* C2, as claimed: in every state of a bulk run the progress file holds every
\* pair this run has searched and written, but for the one in hand; it holds
\* them all when the next pair starts.
C2_CrashSafeProgress ==
    mode = "bulk" =>
        /\ Cardinality(completed \ DiskDone) <= 1
        /\ pc = "pair_loop" => completed \subseteq DiskDone

\* C3, as claimed: once a KeyboardInterrupt has arrived inside the processing
\* of a pair, no further pair is reached, and the process ends with the
\* progress set on disk and run_full_extraction having returned stats (as
\* long as nothing else fails outside the processing of a pair).
C3_BulkCancellation ==
    (mode = "bulk" /\ kiAt > 0 /\ ~outerFault) =>
        /\ Len(visited) = kiAt
        /\ pc = "exited" =>
             /\ returnedStats
             /\ progressFile = ProgressFileOf(already_done)

\* C4: the bulk run reaches the pairs in catalog order, each once; every
\* error raised in the processing of a pair is counted and the run goes on
\* with the next pair; and a run without KeyboardInterrupt whose scraper was
\* built reaches every pair, and returns stats (main then exits with 0)
\* unless the release of the scraper or the progress write after the last
\* pair raises.
C4_ErrorIsolation ==
    mode = "bulk" =>
        /\ \A i \in 1..Len(visited) : visited[i].pair = Pairs[i]
        /\ stats.errors =
             Cardinality({i \in 1..Len(visited) : visited[i].outcome = "error"})
        /\ pc = "cooldown" =>
             visited[Len(visited)].outcome = "error" /\ idx = Len(visited)
        /\ pc = "pair_loop" => idx = Len(visited) + 1
        /\ (pc = "exited" /\ kiCount = 0 /\ acquisitions = 1) =>
             Len(visited) = Len(Pairs)
        /\ (pc = "exited" /\ kiCount = 0 /\ ~outerFault) =>
             /\ Len(visited) = Len(Pairs)
             /\ returnedStats
             /\ exitCode = <<0>>

\* C4 witness: the first two pairs failed, the third was searched and
\* written, and the run returned its statistics.
C4_Witness ==
    /\ mode = "bulk"
    /\ pc = "exited"
    /\ kiCount = 0
    /\ returnedStats
    /\ Len(visited) = Len(Pairs)
    /\ visited[1].outcome = "error"
    /\ visited[2].outcome = "error"
    /\ visited[3].outcome = "searched"
    /\ stats.errors = 2
    /\ visited[3].pair \in DiskDone

InSeq(x, q) == \E i \in 1..Len(q) : q[i] = x

\* A search of the bulk run is under way and is not the first of the run.
LaterSearch == mode = "bulk" /\ pc \in SearchPcs /\ lastOutcome # "none"

\* C5, as claimed: between two attempted searches the coordinator sleeps
\* FULL_EXTRACTION_DELAY, and after an error the cooldown as well.
C5_DelayAndCooldown ==
    LaterSearch =>
        /\ InSeq(FULL_EXTRACTION_DELAY, sleeps)
        /\ lastOutcome = "error" =>
             /\ InSeq(2 * FULL_EXTRACTION_DELAY, sleeps)
             /\ Len(sleeps) >= 2

\* C5, amended: between two attempted searches the coordinator sleeps once:
\* FULL_EXTRACTION_DELAY after a search that ended with or without results,
\* and twice FULL_EXTRACTION_DELAY, in place of that delay, after an error.
C5_DelayOrCooldown ==
    LaterSearch =>
        /\ lastOutcome \in {"nonempty", "empty"} =>
             sleeps = <<FULL_EXTRACTION_DELAY>>
        /\ lastOutcome = "error" => sleeps = <<2 * FULL_EXTRACTION_DELAY>>
        /\ lastOutcome \in {"nonempty", "empty", "error"}

\* C5 witness: a search that follows a pair that ended in an error.
C5_Witness ==
    /\ mode = "bulk"
    /\ pc = "lightweight"
    /\ lastOutcome = "error"
    /\ sleeps = <<50>>

InsideWith ==
    \/ pc \in SearchPcs
    \/ pc \in {"with_body", "pair_loop", "csv_open", "csv_rows", "pair_except",
               "delay", "cooldown", "scope_exit"}
    \/ pc \in {"save_open", "save_dump"} /\ saveSite # "final"

\* C9: a process creates at most one browser handle; inside the with block
\* there is exactly one and it is open, so every rendered fetch uses it;
\* once the block is left, on whatever path, the handle is released; and no
\* rendered fetch ever used a handle that was not open.
C9_DriverLifecycle ==
    /\ acquisitions <= 1
    /\ ~renderedOnReleased
    /\ (mode \in {"single", "bulk"} /\ InsideWith) =>
         acquisitions = 1 /\ driver = "open"
    /\ (pc \in {"main_return", "main_interrupt", "main_except", "exited"}
        \/ (pc \in {"save_open", "save_dump"} /\ saveSite = "final")) =>
         driver # "open"
    /\ (pc = "exited" /\ acquisitions = 1) => driver = "quit"

\* C9 witness: a bulk run that was cancelled in its second pair, after a
\* rendered fetch in the first, ended with the handle released.
C9_Witness ==
    /\ mode = "bulk"
    /\ pc = "exited"
    /\ kiAt = 2
    /\ returnedStats
    /\ acquisitions = 1
    /\ driver = "quit"

ValidationFailed ==
    /\ mode = "single"
    /\ ~argv.bad
    /\ Truthy(argv.marca)
    /\ ~Validation.valid

\* C10: a process whose command line argparse accepts ends with exit code 0
\* or 1: 0 when main returns (the search or the bulk run is over) or after a
\* KeyboardInterrupt, 1 after a validation error or any other exception; and
\* after a validation error no scraper was built and no page asked for.
C10_ExitCodes ==
    /\ pc = "exited" =>
         /\ pending \in {"return", "fallthrough"} => exitCode = <<0>>
         /\ pending = "KeyboardInterrupt" => exitCode = <<0>>
         /\ pending = "Exception" => exitCode = <<1>>
         /\ ~argv.bad => exitCode \in {<<0>>, <<1>>}
         /\ (~argv.bad /\ kiCount = 0 /\ ~outerFault /\ ~ValidationFailed) =>
              exitCode = <<0>>
         /\ ValidationFailed =>
              /\ exitCode = <<1>>
              /\ acquisitions = 0
              /\ driver = "none"
              /\ results = "none"
              /\ requested = <<>>
    /\ ValidationFailed => pc \in {"main_start", "exited", "crashed"}

\* C10 witness: an unknown brand: the error document is printed and the
\* process exits with 1.
C10_Witness ==
    /\ pc = "exited"
    /\ ValidationFailed
    /\ argv.marca = "tesla"
    /\ stdout = <<ErrorOutput>>
    /\ exitCode = <<1>>

\* C11, as claimed: a single-search run whose command line argparse accepted
\* ends with exactly one JSON document on stdout, and the document has the
\* four keys preco_intervalo, media_aproximada, viaturas_consideradas and
\* anuncios_usados_para_calculo.
C11_SingleDocument ==
    (mode = "single" /\ pc = "exited" /\ ~argv.bad) =>
        /\ Len(stdout) = 1
        /\ EmptyOutput \subseteq stdout[1]

\* C16, as claimed: whenever the bulk run is inside search_cars, the page cap
\* in effect is strictly lower than the cap main's call of search_cars gets.
C16_PageCaps ==
    (mode = "bulk" /\ pc \in SearchPcs) => max_pages < DefaultMaxPages

\* C18, as claimed: a pair that a run skips has its results fully written, or
\* was found without results by an earlier run (it is in the progress set
\* the run loaded and has no CSV file); a partial CSV file never makes a run
\* skip its pair.
C18_DoneImpliesPersisted ==
    mode = "bulk" =>
        \A i \in 1..Len(visited) :
            ~SearchedAt(i) =>
                \/ csvFiles[CsvPath(visited[i].pair)] = "complete"
                \/ /\ csvFiles[CsvPath(visited[i].pair)] = "absent"
                   /\ visited[i].pair \in startDone

(***************************************************************************)
(* SpecSearch: one call of search_cars on a constructed scraper, for every *)
(* max_pages in 0..MaxPagesArg, with and without the rendering engine.     *)
(***************************************************************************)
InitSearch ==
    /\ pc = "page_loop"
    /\ mode = "api"
    /\ pending = "none"
    /\ saveSite = "none"
    /\ use_selenium \in BOOLEAN
    /\ driver = (IF use_selenium THEN "open" ELSE "none")
    /\ acquisitions = (IF use_selenium THEN 1 ELSE 0)
    /\ page = 1
    /\ max_pages \in 0..MaxPagesArg
    /\ all_cars = 0
    /\ page_cars = 0
    /\ results = "none"
    /\ lw = "none"
    /\ lwN = 0
    /\ rendered = "none"
    /\ requested = <<>>
    /\ fetched = <<>>
    /\ renderedOnReleased = FALSE
    /\ kiCount = 0
    /\ kiLost = FALSE
    /\ kiAt = 0
    /\ run = 1
    /\ argv = BulkArgv
    /\ params = [marca |-> None, modelo |-> None]
    /\ exitCode = <<>>
    /\ stdout = <<>>
    /\ idx = 1
    /\ already_done = {}
    /\ stats = ZeroStats
    /\ returnedStats = FALSE
    /\ visited = <<>>
    /\ completed = {}
    /\ startDone = {}
    /\ startCsv = {}
    /\ sleeps = <<>>
    /\ lastOutcome = "none"
    /\ outerFault = FALSE
    /\ FreshDisk
    /\ cars = <<>>
    /\ unique = <<>>
    /\ NoCall

NextSearch ==
    \/ PageLoop
    \/ LightweightFetch
    \/ LightweightRaises
    \/ SeleniumGet
    \/ SeleniumGetRaises
    \/ ScrollPage
    \/ WaitForArticle
    \/ SeleniumExtract
    \/ SeleniumExtractRaises
    \/ PageDone
    \/ SearchReturnApi

SpecSearch == InitSearch /\ [][NextSearch]_vars

(***************************************************************************)
(* Claims about search_cars, checked under SpecSearch.                     *)
(***************************************************************************)
SearchEnded == pc \in {"search_return", "api_returned"}

\* C6: search_cars asks for the pages 1, 2, ... in increasing order and never
\* for more than max_pages of them; every page before the one in hand gave at
\* least 10 listings; and when the search ends, the last page p it asked for
\* gave no listing, or fewer than 10, or is page max_pages (no page is asked
\* for only when max_pages is 0).
C6_PaginationTermination ==
    /\ \A i \in 1..Len(requested) : requested[i] = i
    /\ Len(requested) <= max_pages
    /\ Len(fetched) \in {Len(requested) - 1, Len(requested)}
    /\ \A i \in 1..Len(fetched) : fetched[i][1] = i
    /\ \A i \in 1..(Len(requested) - 1) : fetched[i][2] >= 10
    /\ SearchEnded =>
         LET p == Len(requested)
         IN  /\ Len(fetched) = p
             /\ p = 0 => max_pages = 0
             /\ p > 0 => \/ fetched[p][2] = 0
                         \/ fetched[p][2] < 10
                         \/ p = max_pages

\* C6 witness: with a cap of 3 the search ended after page 2, a short page
\* that followed a full one.
C6_Witness ==
    /\ pc = "api_returned"
    /\ max_pages = 3
    /\ fetched = <<(<<1, 10>>), (<<2, 9>>)>>
    /\ all_cars = 19

\* C7: at the end of every page the lightweight step has run; the rendered
\* step has run exactly when the lightweight step gave no listing and
\* rendering is enabled, and only after it; a step that raised an exception
\* left no listing from that step; and no exception leaves search_cars.
C7_FetchStateMachine ==
    /\ rendered # "none" => lw # "none"
    /\ pc \in {"selenium_get", "scroll", "wait", "selenium_extract"} =>
         lw # "none" /\ lwN = 0 /\ use_selenium
    /\ pc = "page_done" =>
         /\ lw # "none"
         /\ rendered # "none" <=> (lwN = 0 /\ use_selenium)
         /\ lw \in {"raised", "non200"} => lwN = 0
         /\ rendered = "none" => page_cars = lwN
         /\ rendered = "raised" => page_cars = 0
    /\ pc = "api_raised" => pending = "KeyboardInterrupt"

\* C7 witness: the lightweight fetch raised, the rendered fetch then gave
\* listings.
C7_Witness ==
    /\ pc = "page_done"
    /\ lw = "raised"
    /\ rendered = "extracted"
    /\ page_cars > 0

(***************************************************************************)
(* OtomotoScraper._deduplicate, on concrete listings.                      *)
(***************************************************************************)
\* The listings of SpecDedup: two titles, with and without a mileage, and a
\* url that is missing, empty, a link, or a link that reads like the
\* composite key of a listing without one.
Titles == {"A", "B"}
Mileages == {None, "5 km"}
Urls == {None, "", "u1", "A_1 PLN_None"}

CarUniverse ==
    [titulo : Titles, preco : {"1 PLN"}, quilometragem : Mileages, url : Urls]

\* key = c.url if c.url else f"{c.titulo}_{c.preco}_{c.quilometragem}"
DedupKey(c) ==
    IF Truthy(c.url)
      THEN c.url
      ELSE c.titulo \o "_" \o c.preco \o "_" \o c.quilometragem

\* A dict that keeps the first value of a key.
DictSet_FirstWins(d, k, v) ==
    IF \E i \in 1..Len(d) : d[i][1] = k THEN d ELSE Append(d, <<k, v>>)

\* A dict, in insertion order: a sequence of <<key, value>>.  unique[key] = c
\* replaces the value of a key the dict has and appends a new key otherwise.
DictSet(d, k, v) ==
    IF \E i \in 1..Len(d) : d[i][1] = k
      THEN [i \in 1..Len(d) |-> IF d[i][1] = k THEN <<k, v>> ELSE d[i]]
      ELSE Append(d, <<k, v>>)

RECURSIVE DedupLoop(_, _)
DedupLoop(d, cs) ==
    IF cs = <<>>
      THEN d
      ELSE DedupLoop(DictSet(d, DedupKey(Head(cs)), Head(cs)), Tail(cs))

\* list(unique.values())
_deduplicate(cs) ==
    LET d == DedupLoop(<<>>, cs)
    IN  [i \in 1..Len(d) |-> d[i][2]]

Deduplicate ==
    /\ pc = "dedup_call"
    /\ unique' = _deduplicate(cars)
    /\ Goto(At("dedup_done"))
    /\ UNCHANGED <<mode, scraperVars, searchVars, pageHist,
                   renderedOnReleased, sigVars, cars, callVars, restVars>>

RECURSIVE SeqsUpTo(_, _)
SeqsUpTo(S, n) ==
    IF n = 0
      THEN {<<>>}
      ELSE LET shorter == SeqsUpTo(S, n - 1)
           IN  shorter \cup {Append(q, x) : q \in shorter, x \in S}

InitDedup ==
    /\ pc = "dedup_call"
    /\ mode = "dedup"
    /\ run = 1
    /\ argv = BulkArgv
    /\ FreshMemory
    /\ FreshDisk
    /\ cars \in SeqsUpTo(CarUniverse, MaxCars)
    /\ unique = <<>>
    /\ NoCall

NextDedup == Deduplicate

SpecDedup == InitDedup /\ [][NextDedup]_vars

LastIndexOf(cs, k) ==
    CHOOSE i \in 1..Len(cs) :
        /\ DedupKey(cs[i]) = k
        /\ \A j \in (i + 1)..Len(cs) : DedupKey(cs[j]) # k

\* C8: the list _deduplicate returns has, for every key of the input, exactly
\* one listing with that key, and it is the last listing of the input with
\* that key; and every listing of the result is a listing of the input.
C8_DedupLastWriteWins ==
    pc = "dedup_done" =>
        /\ \A i \in 1..Len(cars) :
             LET k == DedupKey(cars[i])
                 at == {j \in 1..Len(unique) : DedupKey(unique[j]) = k}
             IN  /\ Cardinality(at) = 1
                 /\ \A j \in at : unique[j] = cars[LastIndexOf(cars, k)]
        /\ \A j \in 1..Len(unique) : \E i \in 1..Len(cars) : unique[j] = cars[i]

\* C8 witness: three listings, the first and the last with the same url and
\* different titles; two are returned and the one with that url is the last.
C8_Witness ==
    /\ pc = "dedup_done"
    /\ Len(cars) = 3
    /\ cars[1].url = "u1" /\ cars[3].url = "u1"
    /\ cars[1].titulo # cars[3].titulo
    /\ DedupKey(cars[2]) # "u1"
    /\ Len(unique) = 2
    /\ unique[1] = cars[3]

\* A search that collected listings returns some, and one that collected
\* none returns none (what SearchResult relies on).
DedupKeepsSome ==
    pc = "dedup_done" => (Len(unique) = 0 <=> Len(cars) = 0)

(***************************************************************************)
(* SpecCalls: functions of the program called on their own, each on every  *)
(* argument of a bounded set.  call holds the name of the function and its *)
(* arguments, ret its return value.                                        *)
(***************************************************************************)

(***************************************************************************)
(* Arguments of calculate_price_interval: copies of four prices, not in    *)
(* ascending order.                                                        *)
(***************************************************************************)
SamplePrices == <<90000, PriceFloor, 40000, PriceFloor + 1>>

Copies(k, p) == [i \in 1..k |-> [preco_numerico |-> p]]

PriceCars(k) ==
    Copies(k[1], SamplePrices[1]) \o Copies(k[2], SamplePrices[2])
        \o Copies(k[3], SamplePrices[3]) \o Copies(k[4], SamplePrices[4])

PriceCalls ==
    {[fn |-> "calculate_price_interval", cars |-> PriceCars(<<a, b, c, d>>)] :
        a \in 0..MaxCopies, b \in 0..1, c \in 0..MaxCopies, d \in 0..MaxCopies}

(***************************************************************************)
(* Arguments of validate_search_params: the catalog of the validator (the  *)
(* empty one when the database file is missing or unreadable, the one of   *)
(* the model, one with more brands than the suggestion limit) and inputs.  *)
(***************************************************************************)
\* _load_database: {"brands": {}} without a readable file.
EmptyCatalog == <<>>

LongCatalog ==
    LET keys == <<"bmw", "audi", "fiat", "kia", "seat", "volvo">>
    IN  [i \in 1..Len(keys) |->
            [key |-> keys[i], brand_value |-> keys[i], brand_text |-> keys[i],
             models |-> <<>>]]

Catalogs == {EmptyCatalog, brands, LongCatalog}

ValidatorCalls ==
    {[fn |-> "validate_search_params", catalog |-> c, marca_input |-> b,
      modelo_input |-> m] :
        c \in Catalogs,
        b \in {None, "", "BMW", " BMW ", "tesla", "volvo"},
        m \in {None, "X5", "x9"}}

(***************************************************************************)
(* OtomotoScraper._build_url.  An optional number is <<>> (None) or <<n>>. *)
(* The query is the sequence of <<key, value>> that urlencode joins.       *)
(***************************************************************************)
FUEL_TYPE_MAP ==
    [x \in {"gasolina", "gasoleo", "diesel", "gpl", "hibrido", "eletrico",
            "hidrogenio"} |->
        CASE x = "gasolina" -> "petrol"
          [] x = "gasoleo" -> "diesel"
          [] x = "diesel" -> "diesel"
          [] x = "gpl" -> "lpg"
          [] x = "hibrido" -> "hybrid"
          [] x = "eletrico" -> "electric"
          [] x = "hidrogenio" -> "hydrogen"]

TRANSMISSION_MAP ==
    [x \in {"manual", "automatica"} |->
        CASE x = "manual" -> "manual"
          [] x = "automatica" -> "automatic"]

\* Python's truth value of an optional number: None and 0 are false.
TruthyNumber(v) == v # <<>> /\ v[1] # 0

\* "if cond: query_params[key] = value"
QueryItem(cond, key, value) == IF cond THEN <<<<key, value>>>> ELSE <<>>

_build_url(p, pg) ==
    <<<<"search[advanced_search_expanded]", "true">>>>
    \o QueryItem(pg > 1, "page", <<pg>>)
    \o QueryItem(Truthy(p.marca), "search[filter_enum_make]", p.marca)
    \o QueryItem(Truthy(p.modelo), "search[filter_enum_model]", p.modelo)
    \o QueryItem(TruthyNumber(p.ano_min),
                 "search[filter_float_year:from]", p.ano_min)
    \o QueryItem(TruthyNumber(p.ano_max),
                 "search[filter_float_year:to]", p.ano_max)
    \o QueryItem(TruthyNumber(p.km_max),
                 "search[filter_float_mileage:to]", p.km_max)
    \o QueryItem(TruthyNumber(p.preco_max),
                 "search[filter_float_price:to]", p.preco_max)
    \o QueryItem(Truthy(p.combustivel)
                     /\ p.combustivel \in DOMAIN FUEL_TYPE_MAP,
                 "search[filter_enum_fuel_type]",
                 IF p.combustivel \in DOMAIN FUEL_TYPE_MAP
                   THEN FUEL_TYPE_MAP[p.combustivel] ELSE None)
    \o QueryItem(Truthy(p.caixa) /\ p.caixa \in DOMAIN TRANSMISSION_MAP,
                 "search[filter_enum_gearbox]",
                 IF p.caixa \in DOMAIN TRANSMISSION_MAP
                   THEN TRANSMISSION_MAP[p.caixa] ELSE None)

UrlParams ==
    [marca : {None, "bmw"}, modelo : {None, "x5"},
     ano_min : {<<>>, <<0>>, <<2015>>}, ano_max : {<<>>, <<2020>>},
     km_max : {<<>>, <<0>>, <<100000>>}, preco_max : {<<>>, <<50000>>},
     combustivel : {None, "gasoleo", "nuclear"},
     caixa : {None, "automatica", "cvt"}]

UrlCalls ==
    {[fn |-> "_build_url", params |-> p, page |-> pg] :
        p \in UrlParams, pg \in 1..MaxPageArg}

(***************************************************************************)
(* OtomotoScraper._parse_node_data and _extract_next_data.  A node of the  *)
(* structured data is the record of what the code reads of it; its price   *)
(* is tagged with its JSON type: "nested" is an object whose "amount" is   *)
(* an object, "flat_amount" an object whose "amount" is a number,          *)
(* "no_amount" an object without "amount".  An optional value is <<>> or   *)
(* <<v>>.  The nodes have no "parameters".                                 *)
(***************************************************************************)
PriceOf(type, value, text, units, code) ==
    [type |-> type, value |-> value, text |-> text, units |-> units,
     currencyCode |-> code]

NodePrices ==
    {PriceOf("nested", 0, "", u, c) :
        u \in {<<>>, <<0>>, <<45000>>, <<-500>>}, c \in {<<>>, <<"EUR">>}}
    \cup {PriceOf(t, 0, "", <<>>, <<>>) :
            t \in {"flat_amount", "no_amount", "null"}}
    \cup {PriceOf(t, v, "", <<>>, <<>>) :
            t \in {"int", "float"}, v \in {0, 45000}}
    \cup {PriceOf("str", 0, s, <<>>, <<>>) :
            s \in {"", "0", "45000", "abc", "amount"}}

NodeUniverse ==
    {[has_title |-> TRUE, title |-> "A", url |-> "u1", price |-> p,
      currency |-> c] : p \in NodePrices, c \in {<<>>, <<"EUR">>}}
    \cup {[has_title |-> h, title |-> "A", url |-> u,
           price |-> PriceOf("nested", 0, "", <<45000>>, <<>>),
           currency |-> <<>>] : h \in BOOLEAN, u \in {None, "u1"}}

\* "'amount' in price_obj" raises TypeError on a number and on None; on a
\* string it is the substring test.
AmountTestRaises(p) == p.type \in {"int", "float", "null"}

AmountTest(p) ==
    CASE p.type \in {"nested", "flat_amount"} -> TRUE
      [] p.type = "str" -> p.text = "amount"
      [] OTHER -> FALSE

\* float(s) of the strings of the model; <<>> is ValueError.
ParseFloat(s) ==
    CASE s = "0" -> <<0>>
      [] s = "45000" -> <<45000>>
      [] OTHER -> <<>>

\* f"{price_val:.0f} {currency}"
DisplayPrice(price_val, currency) == ToString(price_val) \o " " \o currency

CarOf(title, price_val, currency, url) ==
    [titulo |-> title, preco |-> DisplayPrice(price_val, currency),
     preco_numerico |-> price_val, moeda |-> currency, ano |-> None,
     quilometragem |-> None, combustivel |-> None, url |-> url]

\* The default of dict.get.
GetOr(opt, default) == IF opt = <<>> THEN default ELSE opt[1]

\* <<the Car>>, or <<>> for None.  The bare "except:" turns every error
\* into None.
_parse_node_data(node) ==
    LET p == node.price
    IN  IF AmountTestRaises(p) THEN <<>>
        ELSE IF AmountTest(p) /\ p.type = "str" THEN <<>>
        ELSE IF AmountTest(p) /\ p.type = "nested"
          THEN IF p.units = <<>> \/ p.units[1] = 0
                 THEN <<>>
                 ELSE <<CarOf(node.title, p.units[1],
                              GetOr(p.currencyCode, "PLN"), node.url)>>
        ELSE IF p.type = "str"
          THEN IF p.text = "" \/ ParseFloat(p.text) = <<>>
                 THEN <<>>
                 ELSE <<CarOf(node.title, ParseFloat(p.text)[1],
                              GetOr(node.currency, "PLN"), node.url)>>
        ELSE <<>>

\* "if 'title' in item and 'price' in item and ('url' in item or 'id' in
\* item)": every node of the model has a price and an id.
IsCandidate(node) == node.has_title

RECURSIVE _extract_next_data(_)
_extract_next_data(items) ==
    IF items = <<>> THEN <<>>
    ELSE (IF IsCandidate(Head(items))
            THEN _parse_node_data(Head(items)) ELSE <<>>)
         \o _extract_next_data(Tail(items))

NextDataCalls ==
    {[fn |-> "_extract_next_data", items |-> q] :
        q \in SeqsUpTo(NodeUniverse, MaxItems)}

(***************************************************************************)
(* OtomotoScraper._extract_from_html.  An article is its link, the text    *)
(* the price regex matched (group 1: a digit, then digits, spaces and      *)
(* dots), character by character, and the currency it matched (group 2).   *)
(***************************************************************************)
DigitValue(c) == IF c = "2" THEN 2 ELSE 0

RECURSIVE DigitsValue(_)
DigitsValue(q) ==
    IF q = <<>> THEN 0
    ELSE 10 * DigitsValue(SubSeq(q, 1, Len(q) - 1)) + DigitValue(q[Len(q)])

\* ".replace(' ', '').replace('.', '')", then the year glued in front.
PriceString(chars) ==
    LET price_str == SelectSeq(chars, LAMBDA c : c \notin {" ", "."})
    IN  IF Len(price_str) > GluedLength
            /\ SubSeq(price_str, 1, 2) = <<"2", "0">>
          THEN SubSeq(price_str, 5, Len(price_str))
          ELSE price_str

\* "currency = price_match.group(2).upper()", and PLN for the zloty sign,
\* written "zl" here.
HtmlCurrency(c) ==
    CASE c \in {"zl", "ZL"} -> "PLN"
      [] c = "pln" -> "PLN"
      [] c = "eur" -> "EUR"
      [] OTHER -> c

\* <<the Car>> of one article, or <<>> when the loop goes on without one.
ArticleCar(a) ==
    IF a.href = <<>> \/ a.price = <<>> THEN <<>>
    ELSE LET price_val == DigitsValue(PriceString(a.price[1]))
         IN  IF price_val < HtmlPriceFloor THEN <<>>
             ELSE <<CarOf(a.title, price_val, HtmlCurrency(a.currency),
                          a.href[1])>>

RECURSIVE _extract_from_html(_)
_extract_from_html(articles) ==
    IF articles = <<>> THEN <<>>
    ELSE ArticleCar(Head(articles)) \o _extract_from_html(Tail(articles))

PriceTexts ==
    {q \in SeqsUpTo({"2", "0", " "}, MaxPriceChars) :
        q # <<>> /\ q[1] # " "}

Articles ==
    {[href |-> <<"u1">>, title |-> "A", price |-> <<q>>, currency |-> "PLN"] :
        q \in PriceTexts}
    \cup {[href |-> h, title |-> "N/A", price |-> p, currency |-> c] :
            h \in {<<>>, <<"u1">>},
            p \in {<<>>, <<<<"2", ".", "0", "0", "0">>>>},
            c \in {"zl", "eur"}}

HtmlCalls ==
    {[fn |-> "_extract_from_html", articles |-> <<a>>] : a \in Articles}

(***************************************************************************)
(* SpecCalls: one call, and its return.                                    *)
(***************************************************************************)
callFrame == <<mode, pending, saveSite, scraperVars, searchVars, pageHist,
               renderedOnReleased, sigVars, restVars, dedupVars, call>>

Return(value) ==
    /\ pc = "call"
    /\ ret' = <<value>>
    /\ pc' = "returned"
    /\ UNCHANGED callFrame

CallPriceInterval ==
    /\ call.fn = "calculate_price_interval"
    /\ Return(calculate_price_interval(call.cars))

CallValidate ==
    /\ call.fn = "validate_search_params"
    /\ Return(validate_search_params(call.catalog, call.marca_input,
                                     call.modelo_input))

CallBuildUrl ==
    /\ call.fn = "_build_url"
    /\ Return(_build_url(call.params, call.page))

CallExtractNextData ==
    /\ call.fn = "_extract_next_data"
    /\ Return(_extract_next_data(call.items))

CallExtractFromHtml ==
    /\ call.fn = "_extract_from_html"
    /\ Return(_extract_from_html(call.articles))

InitCalls ==
    /\ pc = "call"
    /\ mode = "call"
    /\ run = 1
    /\ argv = BulkArgv
    /\ FreshMemory
    /\ FreshDisk
    /\ cars = <<>>
    /\ unique = <<>>
    /\ \/ call \in PriceCalls
       \/ call \in ValidatorCalls
       \/ call \in UrlCalls
       \/ call \in NextDataCalls
       \/ call \in HtmlCalls
    /\ ret = <<>>

NextCalls ==
    \/ CallPriceInterval
    \/ CallValidate
    \/ CallBuildUrl
    \/ CallExtractNextData
    \/ CallExtractFromHtml

SpecCalls == InitCalls /\ [][NextCalls]_vars

Returned(fn) == pc = "returned" /\ call.fn = fn

(***************************************************************************)
(* Claims about the functions, checked under SpecCalls.                    *)
(***************************************************************************)
\* C12: with n the number of listings priced above 100 and cut the whole
\* part of 5 per cent of n, calculate_price_interval counts n - 2 * cut
\* prices: all of them for n <= 19, at least one fewer at each end for
\* n >= 20, never none when n >= 1; and its interval goes from the price of
\* rank cut + 1 to the price of rank n - cut in ascending order.
C12_TrimmedAggregation ==
    Returned("calculate_price_interval") =>
        LET cs == call.cars
            kept == {i \in 1..Len(cs) : cs[i].preco_numerico > 100}
            n == Cardinality(kept)
            cut == (n * 5) \div 100
            out == ret[1]
            Below(x) == Cardinality({i \in kept : cs[i].preco_numerico < x})
            UpTo(x) == Cardinality({i \in kept : cs[i].preco_numerico <= x})
            HasRank(x, k) == Below(x) < k /\ k <= UpTo(x)
        IN  /\ out.viaturas_consideradas = n - 2 * cut
            /\ n <= 19 => out.viaturas_consideradas = n
            /\ n >= 20 => cut >= 1 /\ out.viaturas_consideradas <= n - 2
            /\ n >= 1 => out.viaturas_consideradas >= 1
            /\ n >= 1 => /\ HasRank(out.preco_intervalo.min, cut + 1)
                         /\ HasRank(out.preco_intervalo.max, n - cut)

\* C12 witness: 29 listings above the floor, one of them at 90000 and one at
\* 101: one price is cut at each end, 27 are counted, and the interval is
\* 101 (of which thirteen remain) to 40000.
C12_Witness ==
    /\ Returned("calculate_price_interval")
    /\ Len(call.cars) = 30
    /\ Cardinality({i \in 1..Len(call.cars) :
                       call.cars[i].preco_numerico = 90000}) = 1
    /\ ret[1].viaturas_consideradas = 27
    /\ ret[1].preco_intervalo.max = 40000
    /\ ret[1].preco_intervalo.min = 101

UnknownBrand ==
    /\ Returned("validate_search_params")
    /\ Truthy(call.marca_input)
    /\ \A i \in 1..Len(call.catalog) :
           ~BrandMatches(call.catalog[i], Strip(Lower(call.marca_input)))

CatalogKeys == [i \in 1..Len(call.catalog) |-> call.catalog[i].key]

RejectsBrand(out) ==
    /\ out.valid = FALSE
    /\ out.brand_value = None
    /\ out.errors = <<"Marca '" \o call.marca_input \o "' nao encontrada.">>
    /\ Len(out.suggestions.marcas) <= 5
    /\ out.suggestions.marcas =
           SubSeq(CatalogKeys, 1, Len(out.suggestions.marcas))

\* C13, as claimed: an input that matches no brand of the catalog, whatever
\* the catalog, is rejected with an error naming it, no brand_value, and a
\* suggestion list that is not empty, has at most 5 entries and is the start
\* of the catalog's keys.
C13_UnknownBrand ==
    UnknownBrand =>
        /\ RejectsBrand(ret[1])
        /\ Len(ret[1].suggestions.marcas) >= 1

\* C13, amended: the same, but the suggestion list has the first 5 keys of
\* the catalog, or all of them when the catalog has fewer: it is empty
\* exactly when the catalog is empty.
C13_UnknownBrandSuggestions ==
    UnknownBrand =>
        /\ RejectsBrand(ret[1])
        /\ Len(ret[1].suggestions.marcas) =
               (IF Len(call.catalog) < 5 THEN Len(call.catalog) ELSE 5)

\* C13 witness: "tesla" against a catalog of six brands: five suggestions,
\* the fifth key last.
C13_Witness ==
    /\ UnknownBrand
    /\ call.marca_input = "tesla"
    /\ Len(call.catalog) = 6
    /\ Len(ret[1].suggestions.marcas) = 5
    /\ ret[1].suggestions.marcas[5] = "seat"

\* C14, as claimed: the query of _build_url has the advanced-search marker,
\* "page" (once, with the page as value) exactly when page > 1, one key for
\* each parameter that is not None (a number 0 included), fuel type and
\* transmission only with a value of their map, and no other key.
C14_UrlKeySet ==
    Returned("_build_url") =>
        LET q == ret[1]
            p == call.params
            keys == {q[i][1] : i \in 1..Len(q)}
            If(c, k) == IF c THEN {k} ELSE {}
            expected ==
                {"search[advanced_search_expanded]"}
                \cup If(call.page > 1, "page")
                \cup If(p.marca # None, "search[filter_enum_make]")
                \cup If(p.modelo # None, "search[filter_enum_model]")
                \cup If(p.ano_min # <<>>, "search[filter_float_year:from]")
                \cup If(p.ano_max # <<>>, "search[filter_float_year:to]")
                \cup If(p.km_max # <<>>, "search[filter_float_mileage:to]")
                \cup If(p.preco_max # <<>>, "search[filter_float_price:to]")
                \cup If(p.combustivel \in DOMAIN FUEL_TYPE_MAP,
                        "search[filter_enum_fuel_type]")
                \cup If(p.caixa \in DOMAIN TRANSMISSION_MAP,
                        "search[filter_enum_gearbox]")
        IN  /\ keys = expected
            /\ Cardinality(keys) = Len(q)
            /\ call.page > 1 =>
                   \E i \in 1..Len(q) : q[i] = <<"page", <<call.page>>>>

\* C15, as claimed: every listing either extraction returns has a numeric
\* price that is not negative.
C15_NonNegativePrice ==
    (Returned("_extract_next_data") \/ Returned("_extract_from_html")) =>
        \A i \in 1..Len(ret[1]) : ret[1][i].preco_numerico >= 0

\* The amount and the currency C17 reads off a node: units and currencyCode
\* of a nested amount; the value of a bare integer, float or string, with
\* the node's currency or PLN.
ClaimedAmount(node) ==
    CASE node.price.type = "nested" -> node.price.units
      [] node.price.type \in {"int", "float"} -> <<node.price.value>>
      [] node.price.type = "str" -> ParseFloat(node.price.text)
      [] OTHER -> <<>>

ClaimedCurrency(node) ==
    IF node.price.type = "nested"
      THEN GetOr(node.price.currencyCode, "PLN")
      ELSE GetOr(node.currency, "PLN")

ClaimedListing(node) ==
    IF IsCandidate(node) /\ ClaimedAmount(node) # <<>>
            /\ ClaimedAmount(node)[1] # 0
      THEN <<CarOf(node.title, ClaimedAmount(node)[1],
                   ClaimedCurrency(node), node.url)>>
      ELSE <<>>

RECURSIVE ClaimedListings(_)
ClaimedListings(items) ==
    IF items = <<>> THEN <<>>
    ELSE ClaimedListing(Head(items)) \o ClaimedListings(Tail(items))

\* C17, as claimed: the listings _extract_next_data returns are, in order,
\* one for each candidate node whose price is a nested amount or a bare
\* integer, float or string with an amount that is not zero, with that
\* amount and currency; the other nodes give none and stop nothing.
C17_PriceShapes ==
    Returned("_extract_next_data") => ret[1] = ClaimedListings(call.items)

====
